---- MODULE Spec2Model ----
(***************************************************************************)
(* Model of src/EigenTrustAlgo.rs: a ledger program holding one            *)
(* CarTrustState record per car account, with the three instructions       *)
(* InitializeCar, ReportMessageOutcome and UpdateTrustScores.              *)
(*                                                                         *)
(* f64 values are modelled as fixed-point numbers with ScaleDigits decimal *)
(* digits (the integer n stands for n / SCALE), every product and quotient *)
(* rounded to the nearest representable value, as f64 arithmetic rounds.   *)
(* The sums accumulated by UpdateTrustScores keep MantissaDigits           *)
(* significant digits, as an f64 keeps 53 significant bits.                *)
(***************************************************************************)
EXTENDS Integers, Sequences, FiniteSets, TLC

VARIABLES accounts, clock, last, prev, written, reports, updates

vars == <<accounts, clock, last, prev, written, reports, updates>>

----------------------------------------------------------------------------
(* Bounds of the model *)

ScaleDigits == 3
MaxReports == 1
MaxUpdates == 1
ClockStart == 1000
MaxClock == 16000
MantissaDigits == 6

SCALE == 10 ^ ScaleDigits

----------------------------------------------------------------------------
(* f64 arithmetic in fixed point *)

\* n / d rounded to the nearest integer (d > 0)
RoundDiv(n, d) == (2 * n + d) \div (2 * d)

\* the f64 literal n / d
Lit(n, d) == RoundDiv(n * SCALE, d)

Mul(a, b) == RoundDiv(a * b, SCALE)

\* a / b; x / x is 1.0 and 0.0 / x is 0.0 whatever the size of x
Div(a, b) ==
    IF a = b THEN SCALE
    ELSE IF a = 0 THEN 0
    ELSE IF b > 0 THEN RoundDiv(a * SCALE, b)
    ELSE 0 - RoundDiv(a * SCALE, 0 - b)

Abs(x) == IF x < 0 THEN 0 - x ELSE x

RECURSIVE Digits(_)
\* the number of decimal digits of n >= 0
Digits(n) == IF n < 10 THEN 1 ELSE 1 + Digits(n \div 10)

\* the distance between the values around x that an f64 can hold: an f64
\* keeps 53 significant bits, the model MantissaDigits significant decimal
\* digits
ulp(x) ==
    LET digits == Digits(Abs(x))
    IN IF digits > MantissaDigits THEN 10 ^ (digits - MantissaDigits) ELSE 1

\* x rounded to the nearest value an f64 can hold
f64_round(x) ==
    LET spacing == ulp(x)
    IN RoundDiv(x, spacing) * spacing

\* a + b as f64 computes it
f64_add(a, b) ==
    LET sum == a + b
    IN f64_round(sum)

\* a finite f64 so large that adding a score of ordinary size to it gives
\* the same value back
Huge == 10 ^ (MantissaDigits + 1)

ONE == Lit(1, 1)

ZERO == Lit(0, 1)

f64_max(a, b) == IF a >= b THEN a ELSE b

f64_min(a, b) == IF a <= b THEN a ELSE b

clamp_unclamped(x) == x

\* x.max(0.0).min(1.0)
clamp(x) == f64_min(f64_max(x, ZERO), ONE)

----------------------------------------------------------------------------
(* Program constants *)

\* size_of::<f64>() + size_of::<i64>()
PackedLen == 16

\* Rent::get()?.minimum_balance(account_span), in units of that amount
rent_lamports == 1

feedback_weight == Lit(1, 10)

\* 0.0001, kept as its reciprocal: it is below the fixed-point resolution
time_decay_divisor == 10000

alpha == Lit(85, 100)

base_initial_trust == Lit(6, 10)

agreement_threshold == Lit(5, 10)

no_voters_default == Lit(5, 10)

NumIterations == 5

----------------------------------------------------------------------------
(* Identities and accounts *)

program_id == "program_id"

system_program == "system_program"

stranger == "stranger"

\* the account keys a caller can pass
Cars == {"car1", "car2"}

\* the cars a batch recalculation can be given
BatchCars == Cars \cup {"car3"}

\* the cars of the populations that hold scores of very different sizes
OrderCars == BatchCars \cup {"car4"}

Slots == OrderCars \cup {"foreign", "short", "unassigned"}

Keys == Slots \cup {"payer", "system"}

NoData == [len |-> 0, trust_score |-> 0, last_updated_timestamp |-> 0]

\* a buffer of n zero bytes
ZeroData(n) == [len |-> n, trust_score |-> 0, last_updated_timestamp |-> 0]

CarTrustState(score, ts) == [trust_score |-> score, last_updated_timestamp |-> ts]

\* CarTrustState::try_from_slice: succeeds when the slice is exactly one record
try_from_slice_ok(data) == data.len = PackedLen

try_from_slice(data) == CarTrustState(data.trust_score, data.last_updated_timestamp)

\* state.serialize(&mut &mut data[..]): the score then the timestamp, 8 bytes
\* each, into the front of the buffer; fails when the buffer is too short
serialize_ok(data) == data.len >= PackedLen

serialize(state, data) ==
    IF data.len >= PackedLen
      THEN [len |-> data.len, trust_score |-> state.trust_score,
            last_updated_timestamp |-> state.last_updated_timestamp]
      ELSE IF data.len >= 8
        THEN [data EXCEPT !.trust_score = state.trust_score]
        ELSE data

data_len(acc) == acc.data.len

InitialTrusts == {Lit(0 - 1, 2), Lit(1, 2), Lit(3, 4), Lit(9, 10), Lit(3, 2)}

ClockSteps == {7500}

\* what the tests put into a car's buffer before the first instruction:
\* vec![0u8; get_packed_len()], or a record with the current clock value
TestBuffers ==
    {ZeroData(PackedLen),
     [len |-> PackedLen, trust_score |-> Lit(1, 2), last_updated_timestamp |-> ClockStart]}

\* the host's accounts before any instruction of this program has run:
\* car1, car3 and car4 are assigned to the program and hold no data yet, car2 was
\* allocated for the program as the tests allocate theirs and holds `buffer`,
\* "foreign" holds a record but belongs to another program, "short" belongs
\* to the program and holds 8 bytes, which is no record, "unassigned" is an
\* account no program has been given yet: empty and with the system program
InitialAccounts(buffer) ==
    [k \in Keys |->
        CASE k \in {"car1", "car3", "car4"} ->
                [owner |-> program_id, lamports |-> 0, data |-> NoData]
          [] k = "car2" ->
                [owner |-> program_id, lamports |-> rent_lamports, data |-> buffer]
          [] k = "foreign" ->
                [owner |-> stranger, lamports |-> rent_lamports,
                 data |-> [len |-> PackedLen, trust_score |-> Lit(3, 2),
                           last_updated_timestamp |-> 0]]
          [] k = "short" ->
                [owner |-> program_id, lamports |-> rent_lamports,
                 data |-> ZeroData(8)]
          [] k = "payer" ->
                [owner |-> system_program, lamports |-> 2 * rent_lamports,
                 data |-> NoData]
          [] OTHER ->
                [owner |-> system_program, lamports |-> 0, data |-> NoData]]

----------------------------------------------------------------------------
(* The instruction handlers, as functions of the accounts *)

Ret(accs, result) == [accounts |-> accs, result |-> result, iterations |-> 0]

\* solana_program::program::invoke(system_instruction::create_account(...)):
\* the host moves the rent from the payer to the new account and allocates
\* `space` zero bytes owned by `owner`; it refuses when the payer cannot pay
create_account_ok(accs, from, to, lamports, host_ok) ==
    host_ok /\ from # to /\ accs[from].lamports >= lamports

create_account(accs, from, to, lamports, space, owner) ==
    [accs EXCEPT ![from].lamports = @ - lamports,
                 ![to] = [owner |-> owner, lamports |-> @.lamports + lamports,
                          data |-> ZeroData(space)]]

\* InitializeCar without the already-initialized test: the record is rewritten
initialize_car_rewriting(accs, accts, initial_trust, clk, host_ok) ==
    IF Len(accts) < 3 THEN Ret(accs, "NotEnoughAccountKeys")
    ELSE IF accs[accts[1]].owner # program_id THEN Ret(accs, "IncorrectProgramId")
    ELSE IF data_len(accs[accts[1]]) > 0
      THEN Ret([accs EXCEPT ![accts[1]].data =
                    serialize(CarTrustState(initial_trust, clk), @)], "Ok")
    ELSE IF ~create_account_ok(accs, accts[2], accts[1], rent_lamports, host_ok)
      THEN Ret(accs, "HostError")
    ELSE Ret([create_account(accs, accts[2], accts[1], rent_lamports, PackedLen, program_id)
                EXCEPT ![accts[1]].data = serialize(CarTrustState(initial_trust, clk),
                                                    ZeroData(PackedLen))], "Ok")

\* InitializeCar without the owner test
initialize_car_any_owner(accs, accts, initial_trust, clk, host_ok) ==
    IF Len(accts) < 3 THEN Ret(accs, "NotEnoughAccountKeys")
    ELSE IF data_len(accs[accts[1]]) > 0 THEN Ret(accs, "Ok")
    ELSE IF ~create_account_ok(accs, accts[2], accts[1], rent_lamports, host_ok)
      THEN Ret(accs, "HostError")
    ELSE Ret([create_account(accs, accts[2], accts[1], rent_lamports, PackedLen, program_id)
                EXCEPT ![accts[1]].data = serialize(CarTrustState(initial_trust, clk),
                                                    ZeroData(PackedLen))], "Ok")

initialize_car(accs, accts, initial_trust, clk, host_ok) ==
    IF Len(accts) < 3 THEN Ret(accs, "NotEnoughAccountKeys")
    ELSE
      LET car_account == accts[1]
          payer_account == accts[2]
      IN
      IF accs[car_account].owner # program_id THEN Ret(accs, "IncorrectProgramId")
      ELSE IF data_len(accs[car_account]) > 0 THEN Ret(accs, "Ok")
      ELSE
        LET trust_state == CarTrustState(initial_trust, clk)
            account_span == PackedLen
        IN
        IF ~create_account_ok(accs, payer_account, car_account, rent_lamports, host_ok)
          THEN Ret(accs, "HostError")
          ELSE
            LET created == create_account(accs, payer_account, car_account,
                                          rent_lamports, account_span, program_id)
                stored == [created EXCEPT ![car_account].data = serialize(trust_state, @)]
            IN IF serialize_ok(created[car_account].data)
                 THEN Ret(stored, "Ok")
                 ELSE Ret(stored, "BorshIoError")

\* trust_score * (1.0 - time_decay_factor * time_elapsed)
decayed_trust(state, clk) ==
    LET time_elapsed == (clk - state.last_updated_timestamp) * SCALE
    IN Mul(state.trust_score, ONE - RoundDiv(time_elapsed, time_decay_divisor))

\* the feedback rule with its two branches exchanged
feedback_score_swapped(reporter_trust_state, sender_trust_state, is_true, clk) ==
    LET decayed_reporter_trust ==
            Mul(reporter_trust_state.trust_score,
                ONE - RoundDiv((clk - reporter_trust_state.last_updated_timestamp) * SCALE,
                               time_decay_divisor))
        decayed_sender_trust ==
            Mul(sender_trust_state.trust_score,
                ONE - RoundDiv((clk - sender_trust_state.last_updated_timestamp) * SCALE,
                               time_decay_divisor))
    IN IF is_true
         THEN sender_trust_state.trust_score
              - Mul(Mul(feedback_weight, decayed_reporter_trust), decayed_sender_trust)
         ELSE sender_trust_state.trust_score
              + Mul(Mul(feedback_weight, decayed_reporter_trust), ONE - decayed_sender_trust)

\* the feedback rule without feedback_weight
feedback_score_unweighted(reporter_trust_state, sender_trust_state, is_true, clk) ==
    LET decayed_reporter_trust ==
            Mul(reporter_trust_state.trust_score,
                ONE - RoundDiv((clk - reporter_trust_state.last_updated_timestamp) * SCALE,
                               time_decay_divisor))
        decayed_sender_trust ==
            Mul(sender_trust_state.trust_score,
                ONE - RoundDiv((clk - sender_trust_state.last_updated_timestamp) * SCALE,
                               time_decay_divisor))
    IN IF is_true
         THEN sender_trust_state.trust_score
              + Mul(decayed_reporter_trust, ONE - decayed_sender_trust)
         ELSE sender_trust_state.trust_score
              - Mul(decayed_reporter_trust, decayed_sender_trust)

\* the sender's score after the feedback rule, before the clamp
feedback_score(reporter_trust_state, sender_trust_state, is_true, clk) ==
    LET decayed_reporter_trust == decayed_trust(reporter_trust_state, clk)
        decayed_sender_trust == decayed_trust(sender_trust_state, clk)
    IN IF is_true
         THEN sender_trust_state.trust_score
              + Mul(Mul(feedback_weight, decayed_reporter_trust), ONE - decayed_sender_trust)
         ELSE sender_trust_state.trust_score
              - Mul(Mul(feedback_weight, decayed_reporter_trust), decayed_sender_trust)

\* the key and owner test applied to the reporter's and to the sender's account
account_matches_key_only(accs, account_info, key) == account_info = key

account_matches(accs, account_info, key) ==
    account_info = key /\ accs[account_info].owner = program_id

\* the feedback written to the sender's account alone
write_feedback_sender_only(accs, reporter_account_info, sender_account_info, is_true, clk) ==
    LET reporter_trust_state == try_from_slice(accs[reporter_account_info].data)
        sender_trust_state == try_from_slice(accs[sender_account_info].data)
        new_sender == CarTrustState(
            clamp(feedback_score(reporter_trust_state, sender_trust_state, is_true, clk)),
            clk)
        sender_written == [accs EXCEPT ![sender_account_info].data = serialize(new_sender, @)]
    IN IF ~serialize_ok(accs[sender_account_info].data)
         THEN Ret(sender_written, "BorshIoError")
         ELSE Ret(sender_written, "Ok")

\* the two writes in the other order: the reporter's record, then the sender's
write_feedback_reporter_first(accs, reporter_account_info, sender_account_info, is_true, clk) ==
    LET reporter_trust_state == try_from_slice(accs[reporter_account_info].data)
        sender_trust_state == try_from_slice(accs[sender_account_info].data)
        new_sender == CarTrustState(
            clamp(feedback_score(reporter_trust_state, sender_trust_state, is_true, clk)),
            clk)
        new_reporter == CarTrustState(reporter_trust_state.trust_score, clk)
        reporter_written == [accs EXCEPT
                                ![reporter_account_info].data = serialize(new_reporter, @)]
        both_written == [reporter_written EXCEPT
                            ![sender_account_info].data = serialize(new_sender, @)]
    IN IF ~serialize_ok(accs[reporter_account_info].data)
         THEN Ret(reporter_written, "BorshIoError")
       ELSE IF ~serialize_ok(reporter_written[sender_account_info].data)
         THEN Ret(both_written, "BorshIoError")
       ELSE Ret(both_written, "Ok")

\* both records decoded, the sender's score updated and clamped, both
\* timestamps set, the sender's record written, then the reporter's
write_feedback(accs, reporter_account_info, sender_account_info, is_true, clk) ==
    LET reporter_trust_state == try_from_slice(accs[reporter_account_info].data)
        sender_trust_state == try_from_slice(accs[sender_account_info].data)
        new_sender == CarTrustState(
            clamp(feedback_score(reporter_trust_state, sender_trust_state, is_true, clk)),
            clk)
        new_reporter == CarTrustState(reporter_trust_state.trust_score, clk)
        sender_written == [accs EXCEPT ![sender_account_info].data = serialize(new_sender, @)]
        both_written == [sender_written EXCEPT
                            ![reporter_account_info].data = serialize(new_reporter, @)]
    IN IF ~serialize_ok(accs[sender_account_info].data)
         THEN Ret(sender_written, "BorshIoError")
       ELSE IF ~serialize_ok(sender_written[reporter_account_info].data)
         THEN Ret(both_written, "BorshIoError")
       ELSE Ret(both_written, "Ok")

report_message_outcome_creating(accs, accts, reporter, message_sender, is_true, clk) ==
    IF Len(accts) < 2 THEN Ret(accs, "NotEnoughAccountKeys")
    ELSE IF ~account_matches(accs, accts[1], reporter) THEN Ret(accs, "IncorrectAccountOwner")
    ELSE IF ~account_matches(accs, accts[2], message_sender) THEN Ret(accs, "IncorrectAccountOwner")
    ELSE write_feedback(
            [k \in Keys |-> IF k \in {accts[1], accts[2]} /\ ~try_from_slice_ok(accs[k].data)
                              THEN [accs[k] EXCEPT !.data = ZeroData(PackedLen)]
                              ELSE accs[k]],
            accts[1], accts[2], is_true, clk)

report_message_outcome(accs, accts, reporter, message_sender, is_true, clk) ==
    IF Len(accts) < 2 THEN Ret(accs, "NotEnoughAccountKeys")
    ELSE
      LET reporter_account_info == accts[1]
          sender_account_info == accts[2]
      IN
      IF ~account_matches(accs, reporter_account_info, reporter)
        THEN Ret(accs, "IncorrectAccountOwner")
      ELSE IF ~account_matches(accs, sender_account_info, message_sender)
        THEN Ret(accs, "IncorrectAccountOwner")
      ELSE IF ~try_from_slice_ok(accs[reporter_account_info].data) THEN Ret(accs, "BorshIoError")
      ELSE IF ~try_from_slice_ok(accs[sender_account_info].data) THEN Ret(accs, "BorshIoError")
      ELSE write_feedback(accs, reporter_account_info, sender_account_info, is_true, clk)

\* the orders in which a HashMap holding the keys `cars` can be iterated
Orders(cars) ==
    {order \in [1..Cardinality(cars) -> cars] :
        \A i, j \in 1..Cardinality(cars) : order[i] = order[j] => i = j}

\* the cars of `order` other than car_id, in order: voter_id != car_id
voters_of(order, car_id) ==
    LET is_voter(voter_id) == voter_id # car_id
    IN SelectSeq(order, is_voter)

RECURSIVE weighted_sum(_, _, _, _)
\* weighted_sum += trust_voter_in_car * agreement, over the first n voters;
\* agreement is 1.0 or 0.0, so each product is the voter's score or 0.0
weighted_sum(states, voters, n, agreement) ==
    IF n = 0 THEN ZERO
    ELSE f64_add(weighted_sum(states, voters, n - 1, agreement),
                 IF agreement = ONE THEN states[voters[n]].trust_score ELSE ZERO)

RECURSIVE total_trust_of_voters(_, _, _)
\* total_trust_of_voters += trust_voter_in_car, over the first n voters
total_trust_of_voters(states, voters, n) ==
    IF n = 0 THEN ZERO
    ELSE f64_add(total_trust_of_voters(states, voters, n - 1),
                 states[voters[n]].trust_score)

\* the update rule applied to the normalized sum, and clamped
damped(normalized_weighted_sum) ==
    clamp(Mul(alpha, normalized_weighted_sum) + Mul(ONE - alpha, base_initial_trust))

\* the update rule with the test on the voters' total left out
new_score_no_default(states, order, car_id) ==
    LET voters == voters_of(order, car_id)
        agreement == IF states[car_id].trust_score > agreement_threshold THEN ONE ELSE ZERO
    IN damped(agreement)

\* one car's new score within an iteration, from the scores entering it
new_score(states, order, car_id) ==
    LET voters == voters_of(order, car_id)
        agreement == IF states[car_id].trust_score > agreement_threshold THEN ONE ELSE ZERO
        weighted == weighted_sum(states, voters, Len(voters), agreement)
        total == total_trust_of_voters(states, voters, Len(voters))
        normalized_weighted_sum ==
            IF total > ZERO THEN Div(weighted, total) ELSE no_voters_default
    IN damped(normalized_weighted_sum)

RECURSIVE new_trust_scores(_, _, _)
\* new_trust_scores: the new score of each of `cars`, from the scores in `states`
new_trust_scores(states, order, cars) ==
    LET car_id == CHOOSE x \in cars : TRUE
        entry == car_id :> new_score(states, order, car_id)
    IN IF cars = {car_id}
         THEN entry
         ELSE entry @@ new_trust_scores(states, order, cars \ {car_id})

RECURSIVE apply_scores_default_clock(_, _, _)
\* the scores applied with the timestamp of a default Clock, which is 0
apply_scores_default_clock(scores, cars, clk) ==
    LET car_id == CHOOSE x \in cars : TRUE
        entry == car_id :> CarTrustState(scores[car_id], 0)
    IN IF cars = {car_id}
         THEN entry
         ELSE entry @@ apply_scores_default_clock(scores, cars \ {car_id}, clk)

RECURSIVE apply_scores(_, _, _)
\* state.trust_score = *new_score; state.last_updated_timestamp = clock
apply_scores(scores, cars, clk) ==
    LET car_id == CHOOSE x \in cars : TRUE
        entry == car_id :> CarTrustState(scores[car_id], clk)
    IN IF cars = {car_id} THEN entry ELSE entry @@ apply_scores(scores, cars \ {car_id}, clk)

RECURSIVE update_in_place(_, _, _, _)
\* each car's new score stored as soon as it is computed
update_in_place(states, order, clk, i) ==
    IF i > Len(order) THEN states
    ELSE update_in_place(
            [states EXCEPT ![order[i]] = CarTrustState(new_score(states, order, order[i]), clk)],
            order, clk, i + 1)

\* an iteration that lets a car see the scores already replaced in it
iteration_in_place(states, order, clk) == update_in_place(states, order, clk, 1)

\* one iteration: every new score is computed, then all are applied
iteration(states, order, clk) ==
    apply_scores(new_trust_scores(states, order, DOMAIN states), DOMAIN states, clk)

RECURSIVE run_per_car(_, _, _, _)
\* the loop bounded by the number of cars instead of the constant
run_per_car(states, order, clk, done) ==
    IF done >= Cardinality(DOMAIN states)
      THEN [states |-> states, iterations |-> done]
      ELSE run_per_car(apply_scores(new_trust_scores(states, order, DOMAIN states),
                                    DOMAIN states, clk), order, clk, done + 1)

RECURSIVE run_iterations(_, _, _, _)
\* for _iteration in 0..5
run_iterations(states, order, clk, done) ==
    IF done >= NumIterations
      THEN [states |-> states, iterations |-> done]
      ELSE run_iterations(iteration(states, order, clk), order, clk, done + 1)

\* the collecting loop without the owner test
qualifying_any_owner(accs, accts) ==
    {accts[i] : i \in {j \in 1..Len(accts) : data_len(accs[accts[j]]) > 0}}

\* the collecting loop without the test for data
qualifying_owned(accs, accts) ==
    {accts[i] : i \in {j \in 1..Len(accts) : accs[accts[j]].owner = program_id}}

\* the accounts the collecting loop keeps
qualifying(accs, accts) ==
    {accts[i] : i \in {j \in 1..Len(accts) :
        accs[accts[j]].owner = program_id /\ data_len(accs[accts[j]]) > 0}}

RECURSIVE collect(_, _)
\* car_trust_states: the record decoded from each of `cars`
collect(accs, cars) ==
    LET car_id == CHOOSE x \in cars : TRUE
        entry == car_id :> try_from_slice(accs[car_id].data)
    IN IF cars = {car_id} THEN entry ELSE entry @@ collect(accs, cars \ {car_id})

RECURSIVE write_back(_, _, _, _)
\* the final records serialized into their accounts in the order of the
\* map; the first write that fails ends the loop and the instruction
write_back(accs, states, order, i) ==
    IF i > Len(order) THEN Ret(accs, "Ok")
    ELSE
      LET car_id == order[i]
          stored == [accs EXCEPT ![car_id].data = serialize(states[car_id], @)]
      IN IF serialize_ok(accs[car_id].data)
           THEN write_back(stored, states, order, i + 1)
           ELSE Ret(stored, "BorshIoError")

\* a collecting loop that passes over the accounts that do not decode
update_trust_scores_skipping(accs, accts, order, clk) ==
    LET cars == {k \in qualifying(accs, accts) : try_from_slice_ok(accs[k].data)}
        is_car(k) == k \in cars
        visited == SelectSeq(order, is_car)
    IN
    IF cars = {} THEN Ret(accs, "Ok")
    ELSE
      LET final == run_iterations(collect(accs, cars), visited, clk, 0)
          written_back == write_back(accs, final.states, visited, 1)
      IN [accounts |-> written_back.accounts, result |-> written_back.result,
          iterations |-> final.iterations]

\* `order` is the order in which the HashMaps of this call are iterated
update_trust_scores(accs, accts, order, clk) ==
    LET cars == qualifying(accs, accts)
    IN
    IF \E k \in cars : ~try_from_slice_ok(accs[k].data) THEN Ret(accs, "BorshIoError")
    ELSE IF cars = {} THEN Ret(accs, "Ok")
    ELSE
      LET car_trust_states == collect(accs, cars)
          final == run_iterations(car_trust_states, order, clk, 0)
          written_back == write_back(accs, final.states, order, 1)
      IN [accounts |-> written_back.accounts, result |-> written_back.result,
          iterations |-> final.iterations]

----------------------------------------------------------------------------
(* The entrypoint: instruction_data decoded and dispatched *)

\* the bytes borsh lays a TrustInstruction out in: one byte of tag, then the
\* variant's fields
InitializeCarLen == 1 + 8

ReportMessageOutcomeLen == 1 + 32 + 32 + 1

UpdateTrustScoresLen == 1

\* instruction_data: `len` bytes were supplied; `tag` is the first byte when
\* there is one, `is_true` the byte in the place of the bool; a field lying
\* beyond `len` is never read
InstructionData(len, tag, initial_trust, reporter, message_sender, is_true) ==
    [len |-> len, tag |-> tag, initial_trust |-> initial_trust, reporter |-> reporter,
     message_sender |-> message_sender, is_true |-> is_true]

\* TrustInstruction::InitializeCar { initial_trust }.try_to_vec()
InitializeCarData(initial_trust) ==
    InstructionData(InitializeCarLen, 0, initial_trust, "nobody", "nobody", 0)

\* TrustInstruction::ReportMessageOutcome { .. }.try_to_vec()
ReportMessageOutcomeData(reporter, message_sender, is_true) ==
    InstructionData(ReportMessageOutcomeLen, 1, 0, reporter, message_sender,
                    IF is_true THEN 1 ELSE 0)

\* TrustInstruction::UpdateTrustScores.try_to_vec()
UpdateTrustScoresData == InstructionData(UpdateTrustScoresLen, 2, 0, "nobody", "nobody", 0)

\* a decoder that reads one instruction from the front of the bytes and does
\* not look at what follows it
instruction_deserialize_ok(instruction_data) ==
    /\ instruction_data.len >= 1
    /\ CASE instruction_data.tag = 0 -> instruction_data.len >= InitializeCarLen
         [] instruction_data.tag = 1 ->
                /\ instruction_data.len >= ReportMessageOutcomeLen
                /\ instruction_data.is_true \in {0, 1}
         [] instruction_data.tag = 2 -> instruction_data.len >= UpdateTrustScoresLen
         [] OTHER -> FALSE

\* TrustInstruction::try_from_slice: the tag names a variant, every field of
\* the variant is there, the bool is 0 or 1, and no byte is left over
instruction_try_from_slice_ok(instruction_data) ==
    /\ instruction_data.len >= 1
    /\ CASE instruction_data.tag = 0 -> instruction_data.len = InitializeCarLen
         [] instruction_data.tag = 1 ->
                /\ instruction_data.len = ReportMessageOutcomeLen
                /\ instruction_data.is_true \in {0, 1}
         [] instruction_data.tag = 2 -> instruction_data.len = UpdateTrustScoresLen
         [] OTHER -> FALSE

\* host_ok and order are what the host decides: whether create_account is
\* carried out, and the order in which a HashMap is iterated
process_instruction(accs, accts, instruction_data, clk, host_ok, order) ==
    IF ~instruction_try_from_slice_ok(instruction_data)
      THEN Ret(accs, "InvalidInstructionData")
    ELSE CASE instruction_data.tag = 0 ->
                initialize_car(accs, accts, instruction_data.initial_trust, clk, host_ok)
           [] instruction_data.tag = 1 ->
                report_message_outcome(accs, accts, instruction_data.reporter,
                                       instruction_data.message_sender,
                                       instruction_data.is_true = 1, clk)
           [] OTHER -> update_trust_scores(accs, accts, order, clk)

----------------------------------------------------------------------------
(* The instructions a caller can send *)

\* <<account list, initial_trust>>: car1 initialized with every score, and
\* the tests' score sent for the accounts that are not to be initialized
InitCalls ==
    {<<(<<"car1", "payer", "system">>), t>> : t \in InitialTrusts}
    \cup {<<(<<c, "payer", "system">>), Lit(3, 4)>> : c \in {"car2", "foreign", "unassigned"}}
    \cup {<<(<<"car1", "payer">>), Lit(3, 4)>>}

\* <<account list, reporter, message_sender, is_true>>: every pair of cars
\* named as supplied, and the calls that name or supply the wrong accounts
ReportCalls ==
    {<<(<<r, s>>), r, s, b>> : r \in Cars, s \in Cars, b \in BOOLEAN}
    \cup {<<(<<"car1", "car2">>), "nobody", "car2", TRUE>>,
          <<(<<"car1", "car2">>), "car1", "nobody", FALSE>>,
          <<(<<"car2", "car1">>), "car1", "car2", TRUE>>,
          <<(<<"car2", "foreign">>), "car2", "foreign", FALSE>>,
          <<(<<"foreign", "car2">>), "foreign", "car2", TRUE>>,
          <<(<<"car2", "short">>), "car2", "short", FALSE>>,
          <<(<<"short", "car2">>), "short", "car2", TRUE>>,
          <<(<<"car2">>), "car2", "car2", FALSE>>}

UpdateAccountLists ==
    {<<>>, <<"car1">>, <<"car2">>, <<"car1", "car2">>, <<"car2", "car1", "car2">>,
     <<"car3", "car1">>, <<"foreign", "car1">>, <<"foreign", "car2", "car1">>,
     <<"car2", "short">>, <<"car1", "car2", "car3", "car4">>}

\* <<instruction_data, account list>>: the payloads that are no instruction
\* (no byte at all, a tag past the last variant, a variant cut short or
\* followed by one more byte, a bool that is neither 0 nor 1)
MalformedCalls ==
    {<<InstructionData(0, 0, 0, "nobody", "nobody", 0), (<<"car2", "car1">>)>>,
     <<InstructionData(1, 3, 0, "nobody", "nobody", 0), (<<"car2", "car1">>)>>,
     <<InstructionData(InitializeCarLen - 4, 0, Lit(3, 4), "nobody", "nobody", 0),
       (<<"car1", "payer", "system">>)>>,
     <<InstructionData(InitializeCarLen + 1, 0, Lit(3, 4), "nobody", "nobody", 0),
       (<<"car1", "payer", "system">>)>>,
     <<InstructionData(ReportMessageOutcomeLen - 1, 1, 0, "car1", "car2", 1),
       (<<"car1", "car2">>)>>,
     <<InstructionData(ReportMessageOutcomeLen + 1, 1, 0, "car1", "car2", 1),
       (<<"car1", "car2">>)>>,
     <<InstructionData(ReportMessageOutcomeLen, 1, 0, "car1", "car2", 2),
       (<<"car1", "car2">>)>>,
     <<InstructionData(UpdateTrustScoresLen + 1, 2, 0, "nobody", "nobody", 0),
       (<<"car2", "car1">>)>>}

NoCall ==
    [op |-> "none", accts |-> <<>>, initial_trust |-> 0, reporter |-> "nobody",
     message_sender |-> "nobody", is_true |-> FALSE, clock |-> 0,
     instruction_data |-> UpdateTrustScoresData, result |-> "none", iterations |-> 0]

Init ==
    /\ \E buffer \in TestBuffers : accounts = InitialAccounts(buffer)
    /\ clock = ClockStart
    /\ last = NoCall
    /\ prev = accounts
    /\ written = [k \in Keys |-> "none"]
    /\ reports = 0
    /\ updates = 0

\* the host clock advances between instructions
Tick ==
    /\ last.op = "none"
    /\ \E d \in ClockSteps :
          /\ clock + d <= MaxClock
          /\ clock' = clock + d
    /\ UNCHANGED <<accounts, last, prev, written, reports, updates>>

InitializeCar ==
    /\ last.op = "none"
    /\ \E call \in InitCalls, host_ok \in BOOLEAN :
          LET accts == call[1]
              initial_trust == call[2]
              instruction_data == InitializeCarData(initial_trust)
          IN \E r \in {process_instruction(accounts, accts, instruction_data, clock,
                                          host_ok, <<>>)} :
             /\ accounts' = r.accounts
             /\ last' = [NoCall EXCEPT !.op = "InitializeCar", !.accts = accts,
                                       !.instruction_data = instruction_data,
                                       !.initial_trust = initial_trust,
                                       !.clock = clock, !.result = r.result]
    /\ prev' = accounts
    /\ UNCHANGED <<clock, written, reports, updates>>

ReportMessageOutcome ==
    /\ last.op = "none"
    /\ reports < MaxReports
    /\ \E call \in ReportCalls :
          LET accts == call[1]
              reporter == call[2]
              message_sender == call[3]
              is_true == call[4]
              instruction_data == ReportMessageOutcomeData(reporter, message_sender, is_true)
          IN \E r \in {process_instruction(accounts, accts, instruction_data, clock,
                                          TRUE, <<>>)} :
             /\ accounts' = r.accounts
             /\ last' = [NoCall EXCEPT !.op = "ReportMessageOutcome", !.accts = accts,
                                       !.instruction_data = instruction_data,
                                       !.reporter = reporter,
                                       !.message_sender = message_sender,
                                       !.is_true = is_true,
                                       !.clock = clock, !.result = r.result]
             /\ reports' = IF r.result = "Ok" THEN reports + 1 ELSE reports
             /\ written' =
                  IF r.result = "Ok"
                    THEN [k \in Keys |->
                            IF k = accts[2] /\ accts[1] # accts[2] THEN "score"
                            ELSE IF k \in {accts[1], accts[2]} /\ written[k] = "none"
                              THEN "timestamp"
                            ELSE written[k]]
                    ELSE written
    /\ prev' = accounts
    /\ UNCHANGED <<clock, updates>>

UpdateTrustScores ==
    /\ last.op = "none"
    /\ updates < MaxUpdates
    /\ \E accts \in UpdateAccountLists :
       \E order \in Orders(qualifying(accounts, accts)) :
          \E r \in {process_instruction(accounts, accts, UpdateTrustScoresData, clock,
                                       TRUE, order)} :
             /\ accounts' = r.accounts
             /\ last' = [NoCall EXCEPT !.op = "UpdateTrustScores", !.accts = accts,
                                       !.clock = clock, !.result = r.result,
                                       !.iterations = r.iterations]
             /\ written' =
                  IF r.result = "Ok"
                    THEN [k \in Keys |->
                            IF k \in qualifying(accounts, accts) THEN "score" ELSE written[k]]
                    ELSE written
             /\ updates' = IF r.result = "Ok" /\ r.iterations > 0 THEN updates + 1 ELSE updates
    /\ prev' = accounts
    /\ UNCHANGED <<clock, reports>>

\* process_instruction on bytes that are no instruction
RejectInstruction ==
    /\ last.op = "none"
    /\ \E call \in MalformedCalls, host_ok \in BOOLEAN :
       \E order \in Orders(qualifying(accounts, call[2])) :
          LET instruction_data == call[1]
              accts == call[2]
          IN \E r \in {process_instruction(accounts, accts, instruction_data, clock,
                                          host_ok, order)} :
             /\ accounts' = r.accounts
             /\ last' = [NoCall EXCEPT !.op = "RejectInstruction", !.accts = accts,
                                       !.instruction_data = instruction_data,
                                       !.clock = clock, !.result = r.result,
                                       !.iterations = r.iterations]
    /\ prev' = accounts
    /\ UNCHANGED <<clock, written, reports, updates>>

\* the instruction has returned: the host takes its result and is ready for
\* the next instruction
Complete ==
    /\ last.op # "none"
    /\ last' = NoCall
    /\ prev' = accounts
    /\ UNCHANGED <<accounts, clock, written, reports, updates>>

\* process_instruction: one decoded instruction is dispatched to its handler
Next ==
    \/ Tick
    \/ InitializeCar
    \/ ReportMessageOutcome
    \/ UpdateTrustScores
    \/ RejectInstruction
    \/ Complete

Spec == Init /\ [][Next]_vars

\* what a car's account can hold when a batch recalculation is first asked
\* for: nothing, an allocated buffer, or the record of an InitializeCar
BatchBuffers ==
    {NoData, ZeroData(PackedLen)}
    \cup {[len |-> PackedLen, trust_score |-> t, last_updated_timestamp |-> ClockStart] :
            t \in InitialTrusts}

\* any population of up to three cars
InitBatch ==
    /\ \E buffers \in [BatchCars -> BatchBuffers] :
          accounts = [k \in Keys |->
                        IF k \in BatchCars
                          THEN [owner |-> program_id,
                                lamports |-> IF buffers[k].len > 0 THEN rent_lamports ELSE 0,
                                data |-> buffers[k]]
                          ELSE InitialAccounts(NoData)[k]]
    /\ clock = ClockStart
    /\ last = NoCall
    /\ prev = accounts
    /\ written = [k \in Keys |-> "none"]
    /\ reports = 0
    /\ updates = 0

NextBatch == Tick \/ UpdateTrustScores \/ Complete

\* batch recalculations over every population of up to three cars
SpecBatch == InitBatch /\ [][NextBatch]_vars

\* the scores InitializeCar was given for the cars of a population in which
\* an f64 sum depends on the order of its terms
OrderTrusts == {Huge, 0 - Huge, Lit(1, 50), Lit(9, 10)}

\* four cars, each initialized with one of OrderTrusts
InitOrder ==
    /\ \E trusts \in [OrderCars -> OrderTrusts] :
          accounts = [k \in Keys |->
                        IF k \in OrderCars
                          THEN [owner |-> program_id, lamports |-> rent_lamports,
                                data |-> [len |-> PackedLen, trust_score |-> trusts[k],
                                          last_updated_timestamp |-> ClockStart]]
                          ELSE InitialAccounts(NoData)[k]]
    /\ clock = ClockStart
    /\ last = NoCall
    /\ prev = accounts
    /\ written = [k \in Keys |-> "none"]
    /\ reports = 0
    /\ updates = 0

NextOrder == UpdateTrustScores \/ Complete

\* batch recalculations over four cars with scores of very different sizes
SpecOrder == InitOrder /\ [][NextOrder]_vars

----------------------------------------------------------------------------
(* Properties *)

InRange(x) == ZERO <= x /\ x <= ONE

Score(accs, k) == accs[k].data.trust_score

Timestamp(accs, k) == accs[k].data.last_updated_timestamp

HoldsRecord(accs, k) == accs[k].data.len = PackedLen

Returned(op) == last.op = op

\* the accounts of the last call's list that were owned by the program and
\* held data when it was made
Qualified ==
    {k \in Keys : /\ \E i \in DOMAIN last.accts : last.accts[i] = k
                  /\ prev[k].owner = program_id
                  /\ prev[k].data.len > 0}

\* C1 (as claimed): after every successful ReportMessageOutcome, whoever the
\* reporter and the sender are (the same account included) and whatever score
\* the records were initialized with, the score stored in the sender's
\* account lies in [0.0, 1.0].
C1_SenderScoreInRange ==
    (Returned("ReportMessageOutcome") /\ last.result = "Ok")
        => InRange(Score(accounts, last.accts[2]))

\* C2 (as claimed): after a successful InitializeCar(initial_trust) on a car
\* account owned by the program, the account decodes to trust_score =
\* initial_trust and last_updated_timestamp = the clock value of the call.
C2_InitializeStoresRequested ==
    (/\ Returned("InitializeCar")
     /\ last.result = "Ok"
     /\ prev[last.accts[1]].owner = program_id)
        => /\ Score(accounts, last.accts[1]) = last.initial_trust
           /\ Timestamp(accounts, last.accts[1]) = last.clock

PrevReporter == try_from_slice(prev[last.accts[1]].data)

PrevSender == try_from_slice(prev[last.accts[2]].data)

DecayedReporter == decayed_trust(PrevReporter, last.clock)

DecayedSender == decayed_trust(PrevSender, last.clock)

\* feedback_weight * decayed_reporter_trust * (1.0 - decayed_sender_trust)
Increment == Mul(Mul(feedback_weight, DecayedReporter), ONE - DecayedSender)

\* feedback_weight * decayed_reporter_trust * decayed_sender_trust
Decrement == Mul(Mul(feedback_weight, DecayedReporter), DecayedSender)

ReportedOk(is_true) ==
    Returned("ReportMessageOutcome") /\ last.result = "Ok" /\ last.is_true = is_true

\* C4 (as claimed): a successful report with is_true = true from a reporter
\* whose decayed trust is higher than the sender's decayed trust leaves the
\* sender's stored score strictly greater than before.
C4_TrueReportStrictlyRaises ==
    (ReportedOk(TRUE) /\ DecayedReporter > DecayedSender)
        => Score(accounts, last.accts[2]) > Score(prev, last.accts[2])

\* C4 (amended): a successful report with is_true = true from a reporter whose
\* decayed trust is higher than the sender's and not negative, onto a sender
\* whose decayed trust and stored score are at most 1, never lowers the
\* sender's stored score, and raises it strictly when the stored score is
\* below 1 and the increment does not vanish in rounding.
C4_TrueReportRaises ==
    (/\ ReportedOk(TRUE)
     /\ DecayedReporter > DecayedSender
     /\ DecayedReporter >= ZERO
     /\ DecayedSender <= ONE
     /\ Score(prev, last.accts[2]) <= ONE)
        => /\ Score(accounts, last.accts[2]) >= Score(prev, last.accts[2])
           /\ (Increment > 0 /\ Score(prev, last.accts[2]) < ONE)
                => Score(accounts, last.accts[2]) > Score(prev, last.accts[2])

\* C4 witness: the tested report, 0.9 on 0.5 with no time elapsed, gives 0.545
C4_Witness ==
    /\ ReportedOk(TRUE)
    /\ PrevReporter = CarTrustState(Lit(9, 10), last.clock)
    /\ PrevSender = CarTrustState(Lit(1, 2), last.clock)
    /\ Score(accounts, last.accts[2]) = Lit(545, 1000)

C6_OwnershipMismatchRejected ==
    (/\ Returned("ReportMessageOutcome")
     /\ Len(last.accts) >= 2
     /\ \/ last.accts[1] # last.reporter
        \/ last.accts[2] # last.message_sender
        \/ prev[last.accts[1]].owner # program_id
        \/ prev[last.accts[2]].owner # program_id)
        => /\ last.result = "IncorrectAccountOwner"
           /\ accounts[last.accts[1]].data = prev[last.accts[1]].data
           /\ accounts[last.accts[2]].data = prev[last.accts[2]].data

\* C6 witness: a rejected report whose two accounts both hold records
C6_Witness ==
    /\ Returned("ReportMessageOutcome")
    /\ Len(last.accts) >= 2
    /\ last.accts[1] # last.accts[2]
    /\ HoldsRecord(prev, last.accts[1])
    /\ HoldsRecord(prev, last.accts[2])
    /\ \/ last.accts[2] # last.message_sender
       \/ prev[last.accts[2]].owner # program_id
    /\ last.result = "IncorrectAccountOwner"

\* C7 (as claimed): every record an update operation has written at least
\* once (the sender's and the reporter's record of a report, every record of
\* a batch recalculation) holds a score in [0.0, 1.0] from then on.
C7_WrittenRecordsInRange ==
    \A k \in Keys : written[k] # "none" => InRange(Score(accounts, k))

\* C7 (amended): every record whose score an update operation has stored at
\* least once (as the sender of a report from another account, or in a batch
\* recalculation) holds a score in [0.0, 1.0] from then on, whatever it was
\* initialized with and whatever operations follow; a record written only as
\* a reporter keeps the score it had.
C7_ScoredRecordsInRange ==
    \A k \in Keys : written[k] = "score" => InRange(Score(accounts, k))

\* C7 witness: a record initialized out of range, clamped by a report, and
\* still in range after a later instruction
C7_Witness ==
    /\ \E k \in Cars : written[k] = "score" /\ HoldsRecord(accounts, k)
    /\ Returned("UpdateTrustScores")
    /\ last.result = "Ok"
    /\ reports > 0
    /\ \E k \in Cars : ~InRange(Score(prev, k))

\* C8: UpdateTrustScores over one or more qualifying records, all of which
\* parse, succeeds after exactly 5 iterations whatever the number of records,
\* and every score it writes lies in [0.0, 1.0], also where the score
\* entering the call did not.
C8_FiveIterationsInRange ==
    (/\ Returned("UpdateTrustScores")
     /\ Qualified # {}
     /\ \A k \in Qualified : HoldsRecord(prev, k))
        => /\ last.result = "Ok"
           /\ last.iterations = 5
           /\ \A k \in Qualified :
                /\ InRange(Score(accounts, k))
                /\ Timestamp(accounts, k) = last.clock

\* C8 witness: a recalculation over three records, one above and one below
\* the range
C8_Witness ==
    /\ Returned("UpdateTrustScores")
    /\ Cardinality(Qualified) = 3
    /\ \E k \in Qualified : Score(prev, k) > ONE
    /\ \E k \in Qualified : Score(prev, k) < ZERO
    /\ last.iterations = 5

\* C9: UpdateTrustScores on an account list without any account that is both
\* owned by the program and non-empty returns success and changes no account.
C9_NothingQualifies ==
    (Returned("UpdateTrustScores") /\ Qualified = {})
        => /\ last.result = "Ok"
           /\ accounts = prev

\* C9 witness: a list holding a populated account of another owner and an
\* empty account of the program
C9_Witness ==
    /\ Returned("UpdateTrustScores")
    /\ last.accts = <<"foreign", "car1">>
    /\ data_len(prev["car1"]) = 0
    /\ data_len(prev["foreign"]) > 0
    /\ last.result = "Ok"

\* C10: an account that holds data never becomes empty again, and an empty
\* account comes to hold data only through an InitializeCar on that account.
C10_Lifecycle ==
    [][\A k \in Keys :
          /\ data_len(accounts[k]) > 0 => data_len(accounts'[k]) > 0
          /\ (data_len(accounts[k]) = 0 /\ data_len(accounts'[k]) > 0)
                => (last'.op = "InitializeCar" /\ last'.accts[1] = k)]_vars

\* C10 witness: InitializeCar has moved an empty account to a record
C10_Witness ==
    /\ Returned("InitializeCar")
    /\ data_len(prev[last.accts[1]]) = 0
    /\ HoldsRecord(accounts, last.accts[1])
    /\ last.result = "Ok"


\* the bytes are one of the three variants, whole and with nothing after it
Decodes(d) ==
    \/ d.len = 9 /\ d.tag = 0
    \/ d.len = 66 /\ d.tag = 1 /\ d.is_true \in {0, 1}
    \/ d.len = 1 /\ d.tag = 2

\* C11: a payload that does not decode into one of the three instruction
\* variants (no bytes, cut short, followed by more bytes, unknown tag, a bool
\* other than 0 and 1) makes process_instruction fail with
\* InvalidInstructionData, and every account, data and balance, is as before.
C11_MalformedPayloadRejected ==
    (last.op # "none" /\ ~Decodes(last.instruction_data))
        => /\ last.result = "InvalidInstructionData"
           /\ accounts = prev

\* C11 witness: an UpdateTrustScores tag followed by one more byte, sent with
\* an account the instruction would have rewritten, is rejected
C11_Witness ==
    /\ Returned("RejectInstruction")
    /\ last.instruction_data.tag = 2
    /\ last.instruction_data.len = 2
    /\ \E i \in DOMAIN last.accts :
          /\ prev[last.accts[i]].owner = program_id
          /\ HoldsRecord(prev, last.accts[i])
    /\ last.result = "InvalidInstructionData"

\* C12: a successful ReportMessageOutcome, with is_true = true and with
\* is_true = false alike, leaves the trust_score of the reporter's record as
\* it was and sets the last_updated_timestamp of the reporter's and of the
\* sender's record to the clock value of the call.
C12_ReporterKeepsScore ==
    (Returned("ReportMessageOutcome") /\ last.result = "Ok")
        => /\ Score(accounts, last.accts[1]) = Score(prev, last.accts[1])
           /\ Timestamp(accounts, last.accts[1]) = last.clock
           /\ Timestamp(accounts, last.accts[2]) = last.clock

\* C12 witness: a report between two accounts, both last written at an
\* earlier time, that changes the sender's score
C12_Witness ==
    /\ Returned("ReportMessageOutcome")
    /\ last.result = "Ok"
    /\ last.accts[1] # last.accts[2]
    /\ Timestamp(prev, last.accts[1]) < last.clock
    /\ Timestamp(prev, last.accts[2]) < last.clock
    /\ Score(accounts, last.accts[2]) # Score(prev, last.accts[2])
    /\ Score(prev, last.accts[1]) # ZERO

C16_ForeignSlotRejected ==
    (/\ Returned("InitializeCar")
     /\ Len(last.accts) >= 3
     /\ prev[last.accts[1]].owner # program_id)
        => /\ last.result = "IncorrectProgramId"
           /\ accounts = prev

\* C16 witness: an empty account of another owner, and a payer able to fund
\* an allocation
C16_Witness ==
    /\ Returned("InitializeCar")
    /\ Len(last.accts) >= 3
    /\ prev[last.accts[1]].owner # program_id
    /\ data_len(prev[last.accts[1]]) = 0
    /\ prev[last.accts[2]].lamports >= rent_lamports
    /\ last.result = "IncorrectProgramId"

\* the seconds the decay formula of the last report took as elapsed for the
\* record in position i of its account list
ElapsedSeconds(i) == last.clock - Timestamp(prev, last.accts[i])

\* 1.0 - time_decay_factor * time_elapsed
DecayMultiplier(i) == ONE - RoundDiv(ElapsedSeconds(i) * SCALE, time_decay_divisor)

\* C19: with a host clock that never runs backwards, in every state reachable
\* by InitializeCar, ReportMessageOutcome and UpdateTrustScores every stored
\* record's last_updated_timestamp is at most the current clock value, no
\* step decreases a record's last_updated_timestamp, and the elapsed seconds
\* of every successful report are not negative and its decay multipliers not
\* above 1.
C19_TimestampsFollowClock ==
    /\ [](/\ \A k \in Keys : HoldsRecord(accounts, k) => Timestamp(accounts, k) <= clock
          /\ (Returned("ReportMessageOutcome") /\ last.result = "Ok")
                => \A i \in 1..2 : ElapsedSeconds(i) >= 0 /\ DecayMultiplier(i) <= ONE)
    /\ [][\A k \in Keys :
            (HoldsRecord(accounts, k) /\ HoldsRecord(accounts', k))
                => Timestamp(accounts', k) >= Timestamp(accounts, k)]_vars

\* C19 witness: a report, made after the clock has advanced, on a record that
\* a batch recalculation stamped at an earlier clock value
C19_Witness ==
    /\ Returned("ReportMessageOutcome")
    /\ last.result = "Ok"
    /\ updates > 0
    /\ ElapsedSeconds(2) > 0
    /\ DecayMultiplier(2) < ONE
    /\ Timestamp(prev, last.accts[2]) > ClockStart
    /\ Timestamp(accounts, last.accts[2]) = clock

\* a batch recalculation over at least one record has returned success
UpdatedOk == Returned("UpdateTrustScores") /\ last.result = "Ok" /\ Qualified # {}

RECURSIVE Synchronous(_, _, _, _)
\* n rounds in which every car's new score is computed from the scores that
\* entered the round and all new scores are applied together, the voters
\* visited in `order`
Synchronous(states, order, clk, n) ==
    IF n = 0 THEN states
    ELSE Synchronous(apply_scores(new_trust_scores(states, order, DOMAIN states),
                                  DOMAIN states, clk),
                     order, clk, n - 1)

\* the scores entering the last call are all >= 0 or all <= 0
OneSign ==
    \/ \A k \in Qualified : Score(prev, k) >= ZERO
    \/ \A k \in Qualified : Score(prev, k) <= ZERO

\* C13 (as claimed): the records UpdateTrustScores stores are the outcome of
\* 5 synchronous rounds (each new score computed from the scores entering the
\* round, all applied together), and this outcome is the same in whatever
\* order the records are visited.
C13_SynchronousAnyOrder ==
    UpdatedOk
        => \A order \in Orders(Qualified) :
              collect(accounts, Qualified)
                  = Synchronous(collect(prev, Qualified), order, last.clock, 5)

\* C13 (amended): the records UpdateTrustScores stores are the outcome of 5
\* synchronous rounds in the order the records were visited; when the
\* entering scores are all >= 0 or all <= 0 the outcome is the same in
\* whatever order the records are visited.
C13_SynchronousRounds ==
    UpdatedOk
        => /\ \E order \in Orders(Qualified) :
                collect(accounts, Qualified)
                    = Synchronous(collect(prev, Qualified), order, last.clock, 5)
           /\ OneSign
                => \A order \in Orders(Qualified) :
                      collect(accounts, Qualified)
                          = Synchronous(collect(prev, Qualified), order, last.clock, 5)

\* C13 witness: four records of one sign and of very different sizes, of
\* which the recalculation raises some and lowers others
C13_Witness ==
    /\ UpdatedOk
    /\ Cardinality(Qualified) = 4
    /\ OneSign
    /\ \E k \in Qualified : Score(prev, k) = Huge
    /\ \E k \in Qualified : Score(prev, k) = Lit(1, 50)
    /\ \E k \in Qualified : Score(accounts, k) = Lit(94, 100)
    /\ \E k \in Qualified : Score(accounts, k) = Lit(9, 100)

\* the last call was a report that passed the key and owner tests
PassedAccountTests ==
    /\ Returned("ReportMessageOutcome")
    /\ Len(last.accts) >= 2
    /\ last.accts[1] = last.reporter
    /\ last.accts[2] = last.message_sender
    /\ prev[last.accts[1]].owner = program_id
    /\ prev[last.accts[2]].owner = program_id

\* the account holds data that is not one record
Unparsable(accs, k) == accs[k].data.len > 0 /\ accs[k].data.len # 16

\* C15: when an account that ReportMessageOutcome or UpdateTrustScores must
\* decode (owned by the program, holding data) does not parse as a record,
\* the call fails with the decoding error and every account is as before,
\* the accounts of the other cars, which did parse, included.
C15_DecodeFailureChangesNothing ==
    (\/ PassedAccountTests /\ \E i \in 1..2 : Unparsable(prev, last.accts[i])
     \/ Returned("UpdateTrustScores") /\ \E k \in Qualified : Unparsable(prev, k))
        => /\ last.result = "BorshIoError"
           /\ accounts = prev

\* C15 witness: a batch recalculation given a record, which it decodes, and
\* then an account of 8 bytes
C15_Witness ==
    /\ Returned("UpdateTrustScores")
    /\ Len(last.accts) = 2
    /\ HoldsRecord(prev, last.accts[1])
    /\ prev[last.accts[1]].owner = program_id
    /\ Unparsable(prev, last.accts[2])
    /\ prev[last.accts[2]].owner = program_id
    /\ last.result = "BorshIoError"

\* the last call's account list without the accounts its filter passes over
QualifiedList ==
    LET is_qualified(k) == k \in Qualified
    IN SelectSeq(last.accts, is_qualified)

\* C17: UpdateTrustScores returns success whenever every account that is
\* owned by the program and holds data parses, whatever other accounts it is
\* given; every account owned by someone else or without data keeps its
\* data, owner and balance; and the records stored are those the call stores
\* when given the qualifying accounts alone.
C17_OnlyQualifyingChange ==
    (/\ Returned("UpdateTrustScores")
     /\ \A k \in Qualified : HoldsRecord(prev, k))
        => /\ last.result = "Ok"
           /\ \A k \in Keys \ Qualified : accounts[k] = prev[k]
           /\ \E order \in Orders(Qualified) :
                accounts = update_trust_scores(prev, QualifiedList, order, last.clock).accounts

\* C17 witness: a recalculation given a record of another owner, a record of
\* the program, and an empty account of the program; only the program's
\* record is rewritten
C17_Witness ==
    /\ Returned("UpdateTrustScores")
    /\ last.accts = <<"foreign", "car2", "car1">>
    /\ HoldsRecord(prev, "foreign")
    /\ data_len(prev["car1"]) = 0
    /\ Qualified = {"car2"}
    /\ accounts["car2"] # prev["car2"]
    /\ last.result = "Ok"

RECURSIVE ExactSum(_, _)
\* the sum of the scores the accounts in `cars` held before the last call,
\* as a sum of real numbers
ExactSum(accs, cars) ==
    IF cars = {} THEN 0
    ELSE LET k == CHOOSE x \in cars : TRUE
         IN Score(accs, k) + ExactSum(accs, cars \ {k})

\* the sum of the other cars' entering scores as f64 adds them, visited in
\* `order`
AddedSum(order, k) ==
    total_trust_of_voters(collect(prev, Qualified), voters_of(order, k),
                          Len(voters_of(order, k)))

\* the score UpdateTrustScores leaves: 0.94 for `high`, 0.09 otherwise
FinalScore(high) == IF high THEN Lit(94, 100) ELSE Lit(9, 100)

\* a second UpdateTrustScores on the same accounts, in whatever order,
\* stores the scores that are there
SecondRunKeepsScores ==
    \A order \in Orders(Qualified) :
        \A k \in Qualified :
            Score(update_trust_scores(accounts, last.accts, order, clock).accounts, k)
                = Score(accounts, k)

\* C20 (as claimed): UpdateTrustScores leaves 0.515 in a single qualifying
\* record; with two or more it leaves 0.94 in every record whose entering
\* score is above 0.5 or whose other cars' scores sum to at most 0, and 0.09
\* in the others; a second UpdateTrustScores on the same accounts leaves
\* every score unchanged.
C20_OneBitOfEachScore ==
    UpdatedOk
        => /\ Cardinality(Qualified) = 1
                => \A k \in Qualified : Score(accounts, k) = Lit(515, 1000)
           /\ Cardinality(Qualified) >= 2
                => \A k \in Qualified :
                      Score(accounts, k)
                          = FinalScore(\/ Score(prev, k) > Lit(1, 2)
                                       \/ ExactSum(prev, Qualified \ {k}) <= 0)
           /\ SecondRunKeepsScores

\* C20 (amended): UpdateTrustScores leaves 0.515 in a single qualifying
\* record; with two or more it leaves 0.94 in every record whose entering
\* score is above 0.5 or whose other cars' scores, added as f64 adds them in
\* the order the records are visited, do not give a sum above 0, and 0.09 in
\* the others; when the entering scores are all >= 0 or all <= 0 that sum is
\* above 0 exactly when the sum of the scores is; a second UpdateTrustScores
\* on the same accounts leaves every score unchanged.
C20_FixedPoint ==
    UpdatedOk
        => /\ Cardinality(Qualified) = 1
                => \A k \in Qualified : Score(accounts, k) = Lit(515, 1000)
           /\ Cardinality(Qualified) >= 2
                => /\ \E order \in Orders(Qualified) :
                        \A k \in Qualified :
                            Score(accounts, k)
                                = FinalScore(\/ Score(prev, k) > Lit(1, 2)
                                             \/ AddedSum(order, k) <= 0)
                   /\ OneSign
                        => \A k \in Qualified :
                              Score(accounts, k)
                                  = FinalScore(\/ Score(prev, k) > Lit(1, 2)
                                               \/ ExactSum(prev, Qualified \ {k}) <= 0)
           /\ SecondRunKeepsScores

\* C20 witness: a recalculation over scores of both signs that leaves 0.94
\* in a record that entered with at most 0.5, and 0.09 in another
C20_Witness ==
    /\ UpdatedOk
    /\ Cardinality(Qualified) >= 3
    /\ ~OneSign
    /\ \E k \in Qualified : Score(prev, k) <= Lit(1, 2) /\ Score(accounts, k) = Lit(94, 100)
    /\ \E k \in Qualified : Score(accounts, k) = Lit(9, 100)

====
